---- MODULE Spec2Model ----
(***************************************************************************)
(* The paper-trading cycle of api/index.py: the /run handler loads the     *)
(* portfolio ledger from the document store, values it, sweeps the         *)
(* configured tickers (regime, signal, sizing, execution) and writes the   *)
(* ledger back.                                                            *)
(*                                                                         *)
(* Units.  Prices, ATR and the rolling levels are whole dollars; money     *)
(* (cash, equity, cost, revenue) is counted in 1/COMMISSION_DEN dollars,   *)
(* so that cost = shares*price*(1 + 0.001) and revenue =                   *)
(* shares*price*(1 - 0.001) are exact; the float quotient of the sizer is  *)
(* truncated to whole shares.  atr_pct is counted in 1/100 of a percent.   *)
(* A float NaN (a rolling window that is not full) is the value NaN, which *)
(* compares False with everything, as in IEEE arithmetic.                  *)
(*                                                                         *)
(* sent counts the calls of send_telegram (line 97); whether a call posts  *)
(* depends on TELEGRAM_TOKEN and TELEGRAM_CHAT_ID (line 62), and a failed  *)
(* post is swallowed (line 67).  base and prev are history variables: the  *)
(* ledger as loaded, and the ledger before the latest sweep step.          *)
(*                                                                         *)
(* Spec is the handler with two workers.  The classifier, the indicators   *)
(* of a frame, the breakout levels, the sizer and the save/load pair are   *)
(* also run on their own, on grids of inputs held in probe (SpecRegime,    *)
(* SpecAdx, SpecBreakout, SpecSizer, SpecRoundTrip).                       *)
(***************************************************************************)
EXTENDS Integers, Sequences, FiniteSets, TLC

(* ------------------------------ bounds -------------------------------- *)

\* how many tickers of PORTFOLIO_CONFIG, in its order, the sweep covers
NumTickers == 2

\* how many invocations of /run are started in one behaviour
MaxRuns == 2

\* how many entries the longest log handed to the first save_state holds
MaxLogLen == 52

\* how many trades are logged after the first save in one behaviour
MaxAppends == 3

(* ------------------------- program constants -------------------------- *)

INITIAL_CAPITAL == 100000

\* RISK_PER_TRADE = 0.02 = RISK_NUM / RISK_DEN
RISK_NUM == 2

RISK_DEN == 100

\* COMMISSION_RATE = 0.001 = COMMISSION_NUM / COMMISSION_DEN
COMMISSION_NUM == 1

COMMISSION_DEN == 1000

\* max_position_val = total_equity * 0.24 = total_equity * MAX_POS_NUM / MAX_POS_DEN
MAX_POS_NUM == 24

MAX_POS_DEN == 100

\* atr_pct < 1.0, in 1/100 of a percent
SQUEEZE_ATR_PCT == 100

\* adx > 25
TURTLE_ADX == 25

\* MR_SETTINGS['StdDev']
MR_STDDEV == 2

\* save_state keeps the last 50 log entries
LOG_LIMIT == 50

\* get_atr(df, window=14)
ATR_WINDOW == 14

\* get_adx(df, window=14)
ADX_WINDOW == 14

\* df['Close'].rolling(200)
SMA200_WINDOW == 200

NaN == 0 - 1

PORTFOLIO_CONFIG == <<"WDC", "STX", "HOOD", "CAH">>

\* PORTFOLIO_CONFIG[ticker]: the Turtle windows of a ticker
config(ticker) ==
    [WDC  |-> [Entry |-> 50, Exit |-> 20],
     STX  |-> [Entry |-> 65, Exit |-> 35],
     HOOD |-> [Entry |-> 20, Exit |-> 10],
     CAH  |-> [Entry |-> 40, Exit |-> 30]][ticker]

\* the window of hist_high_20, line 203
SQUEEZE_WINDOW == 20

\* MR_SETTINGS['Window']
MR_WINDOW == 20

Tickers == SubSeq(PORTFOLIO_CONFIG, 1, NumTickers)

TickerSet == {Tickers[k] : k \in 1..Len(Tickers)}

\* the two concurrent workers that can serve /run
Invs == {1, 2}

(* --------------------------- input domains ---------------------------- *)

\* last Close of a download; the wide gap lets a held position grow until
\* 24% of the equity exceeds the cash
Prices == {100, 1100}

\* get_atr results: NaN (fewer than 14 bars), 0 (flat bars), 1 (1.0% of the
\* price 100), 20
Atrs == {NaN, 0, 1, 20}

\* get_adx results: 0 (short history), the boundary 25, a strong trend
Adxs == {0, 25, 30}

\* 200-bar mean of Close, NaN with fewer than 200 bars
Sma200s == {NaN, 150}

\* rolling highs, lows and means, NaN when the window is not full
Levels == {NaN, 150}

\* rolling standard deviation of Close
Stds == {0, 30}

VARIABLES
    db,             \* "client" or "None": the module-level Firestore client
    doc,            \* the stored portfolio_state document, NoDoc when absent
    pc,             \* per worker: where its invocation of /run stands
    state,          \* per worker: the ledger held in memory
    current_prices, \* per worker: the dict of fresh quotes of step 1
    total_equity,   \* per worker: the equity figure of step 1
    idx,            \* per worker: position in the sweep over Tickers
    last,           \* per worker: what the latest sweep step did
    sent,           \* per worker: calls of send_telegram in this invocation
    base,           \* per worker: the ledger as loaded, the document found by the
                    \* load and the run number (history)
    prev,           \* per worker: ledger and sent before the latest sweep step (history)
    response,       \* per worker: the JSON answer of execute()
    runs,           \* invocations started so far
    overlap,        \* some invocation loaded while another was in flight
    probe           \* input and result of a pure function under test

vars == <<db, doc, pc, state, current_prices, total_equity, idx, last, sent,
          base, prev, response, runs, overlap, probe>>

mainVars == <<db, doc, pc, state, current_prices, total_equity, idx, last, sent,
              base, prev, response, runs, overlap>>

(* ------------------------------ helpers ------------------------------- *)

Min(a, b) == IF a < b THEN a ELSE b

\* floor(a * b / c) for a, b >= 0 and c > 0, without a wide product
MulDiv(a, b, c) == (a \div c) * b + ((a % c) * b) \div c

\* IEEE comparisons: False when either side is NaN
Lt(a, b) == a # NaN /\ b # NaN /\ a < b

Gt(a, b) == a # NaN /\ b # NaN /\ a > b

Range(s) == {s[k] : k \in 1..Len(s)}

NoDoc == [cash |-> NaN]

NoProbe == [fn |-> "none"]

NEUTRAL_POS == [status |-> "NEUTRAL", shares |-> 0, entry_price |-> 0]

\* get_state, lines 78-82
initial_state ==
    [cash      |-> INITIAL_CAPITAL * COMMISSION_DEN,
     positions |-> [t \in TickerSet |-> NEUTRAL_POS],
     logs      |-> <<>>]

NoStep ==
    [signal |-> "none", ticker |-> "", strategy |-> "", price |-> 0, shares |-> 0,
     cost |-> 0, level |-> 0]

NoResponse == [status |-> "", message |-> ""]

NoBase == [state |-> NoDoc, found |-> NoDoc, run |-> 0]

NoPrev == [state |-> NoDoc, sent |-> 0]

(* --------------------------- pure functions --------------------------- *)

\* lines 181: atr_pct = (atr_val / price) * 100, in 1/SQUEEZE_ATR_PCT percent;
\* a zero price gives inf or nan, which both compare False with "< 1.0"
AtrPct(atr_val, price) ==
    IF atr_val = NaN \/ price = NaN \/ price = 0 THEN NaN
    ELSE (atr_val * 100 * SQUEEZE_ATR_PCT) \div price

\* lines 127-138 with the guard of line 128 at one window
get_adx_one_window(bars, dx) == IF bars < ADX_WINDOW THEN 0 ELSE dx

\* lines 127-138: 0 for a frame of fewer than 2 * window bars, else dx, the
\* smoothed directional index lines 129-138 compute from the bars
get_adx(bars, dx) == IF bars < ADX_WINDOW * 2 THEN 0 ELSE dx

\* lines 122-125: the rolling mean of 14 true ranges, NaN on a shorter frame
get_atr(bars, atr) == IF bars < ATR_WINDOW THEN NaN ELSE atr

\* line 183: the rolling mean of 200 closes, NaN on a shorter frame
Sma200(bars, mean) == IF bars < SMA200_WINDOW THEN NaN ELSE mean

\* lines 186-193 with the trend test placed before the squeeze test
SelectStrategyTrendFirst(atr_pct, adx, price, sma_200) ==
    IF Gt(adx, TURTLE_ADX) /\ Gt(price, sma_200) THEN "TURTLE"
    ELSE IF Lt(atr_pct, SQUEEZE_ATR_PCT) THEN "SQUEEZE"
    ELSE "MEAN_REV"

\* lines 186-193
SelectStrategy(atr_pct, adx, price, sma_200) ==
    IF Lt(atr_pct, SQUEEZE_ATR_PCT) THEN "SQUEEZE"
    ELSE IF Gt(adx, TURTLE_ADX) /\ Gt(price, sma_200) THEN "TURTLE"
    ELSE "MEAN_REV"

\* line 218: lower = sma - StdDev * std
LowerBand(sma, std) ==
    IF sma = NaN \/ std = NaN THEN NaN ELSE sma - MR_STDDEV * std

Hold == [signal |-> "HOLD", reason |-> "", level |-> 0]

NoLevels ==
    [hist_high_20 |-> NaN, hist_high |-> NaN, hist_low |-> NaN,
     sma |-> NaN, std |-> NaN]

\* iloc[:-1] keeping the current bar
DropLastNot(s) == s

\* iloc[:-1]: the series without its last element, the current bar
DropLast(s) == SubSeq(s, 1, Len(s) - 1)

\* rolling(w).max().iloc[-1]: the greatest of the last w values, NaN when the
\* series has fewer than w
RollingMax(s, w) ==
    IF Len(s) < w THEN NaN
    ELSE LET W == {s[k] : k \in (Len(s) - w + 1)..Len(s)}
         IN  CHOOSE m \in W : \A x \in W : x <= m

\* rolling(w).min().iloc[-1]
RollingMin(s, w) ==
    IF Len(s) < w THEN NaN
    ELSE LET W == {s[k] : k \in (Len(s) - w + 1)..Len(s)}
         IN  CHOOSE m \in W : \A x \in W : m <= x

\* a rolling mean or deviation of Close over w bars: NaN on a shorter frame
RollingStat(bars, w, v) == IF bars < w THEN NaN ELSE v

\* lines 203, 209-210, 216-217: the levels the active strategy computes from
\* the frame df; sma and std are the 20-bar statistics of its closes
FrameLevels(df, ticker, active_strategy, sma, std) ==
    IF active_strategy = "SQUEEZE" THEN
        [NoLevels EXCEPT
            !.hist_high_20 = RollingMax(DropLast(df.High), SQUEEZE_WINDOW)]
    ELSE IF active_strategy = "TURTLE" THEN
        [NoLevels EXCEPT
            !.hist_high = RollingMax(DropLast(df.High), config(ticker).Entry),
            !.hist_low  = RollingMin(DropLast(df.Low), config(ticker).Exit)]
    ELSE
        [NoLevels EXCEPT !.sma = RollingStat(Len(df.High), MR_WINDOW, sma),
                         !.std = RollingStat(Len(df.High), MR_WINDOW, std)]

\* lines 196-220 with the exit rules of lines 212 and 220 not asking for LONG
GenerateSignalExitUnheld(active_strategy, current_status, price, lv) ==
    IF active_strategy = "SQUEEZE" THEN
        IF current_status = "NEUTRAL" /\ Gt(price, lv.hist_high_20)
        THEN [signal |-> "BUY", reason |-> "Squeeze Breakout", level |-> lv.hist_high_20]
        ELSE Hold
    ELSE IF active_strategy = "TURTLE" THEN
        IF current_status = "NEUTRAL" /\ Gt(price, lv.hist_high)
        THEN [signal |-> "BUY", reason |-> "Turtle Entry", level |-> lv.hist_high]
        ELSE IF Lt(price, lv.hist_low)
        THEN [signal |-> "SELL", reason |-> "Turtle Exit", level |-> lv.hist_low]
        ELSE Hold
    ELSE
        IF current_status = "NEUTRAL" /\ Lt(price, LowerBand(lv.sma, lv.std))
        THEN [signal |-> "BUY", reason |-> "Dip Buy", level |-> LowerBand(lv.sma, lv.std)]
        ELSE IF Gt(price, lv.sma)
        THEN [signal |-> "SELL", reason |-> "Mean Revert", level |-> lv.sma]
        ELSE Hold

\* lines 196-220 with an exit rule added to the SQUEEZE branch
GenerateSignalSqueezeExit(active_strategy, current_status, price, lv) ==
    IF active_strategy = "SQUEEZE" THEN
        IF current_status = "NEUTRAL" /\ Gt(price, lv.hist_high_20)
        THEN [signal |-> "BUY", reason |-> "Squeeze Breakout", level |-> lv.hist_high_20]
        ELSE IF current_status = "LONG" /\ Lt(price, lv.hist_high_20)
        THEN [signal |-> "SELL", reason |-> "Squeeze Exit", level |-> lv.hist_high_20]
        ELSE Hold
    ELSE IF active_strategy = "TURTLE" THEN
        IF current_status = "NEUTRAL" /\ Gt(price, lv.hist_high)
        THEN [signal |-> "BUY", reason |-> "Turtle Entry", level |-> lv.hist_high]
        ELSE IF current_status = "LONG" /\ Lt(price, lv.hist_low)
        THEN [signal |-> "SELL", reason |-> "Turtle Exit", level |-> lv.hist_low]
        ELSE Hold
    ELSE
        IF current_status = "NEUTRAL" /\ Lt(price, LowerBand(lv.sma, lv.std))
        THEN [signal |-> "BUY", reason |-> "Dip Buy", level |-> LowerBand(lv.sma, lv.std)]
        ELSE IF current_status = "LONG" /\ Gt(price, lv.sma)
        THEN [signal |-> "SELL", reason |-> "Mean Revert", level |-> lv.sma]
        ELSE Hold

\* lines 196-220 with the entry rules of lines 204, 211 and 219 not asking for
\* NEUTRAL
GenerateSignalPyramiding(active_strategy, current_status, price, lv) ==
    IF active_strategy = "SQUEEZE" THEN
        IF Gt(price, lv.hist_high_20)
        THEN [signal |-> "BUY", reason |-> "Squeeze Breakout", level |-> lv.hist_high_20]
        ELSE Hold
    ELSE IF active_strategy = "TURTLE" THEN
        IF Gt(price, lv.hist_high)
        THEN [signal |-> "BUY", reason |-> "Turtle Entry", level |-> lv.hist_high]
        ELSE IF current_status = "LONG" /\ Lt(price, lv.hist_low)
        THEN [signal |-> "SELL", reason |-> "Turtle Exit", level |-> lv.hist_low]
        ELSE Hold
    ELSE
        IF Lt(price, LowerBand(lv.sma, lv.std))
        THEN [signal |-> "BUY", reason |-> "Dip Buy", level |-> LowerBand(lv.sma, lv.std)]
        ELSE IF current_status = "LONG" /\ Gt(price, lv.sma)
        THEN [signal |-> "SELL", reason |-> "Mean Revert", level |-> lv.sma]
        ELSE Hold

\* lines 196-220; lv holds the rolling levels the active strategy reads, and
\* level is the one the rule that fired compared the price with
GenerateSignal(active_strategy, current_status, price, lv) ==
    IF active_strategy = "SQUEEZE" THEN
        IF current_status = "NEUTRAL" /\ Gt(price, lv.hist_high_20)
        THEN [signal |-> "BUY", reason |-> "Squeeze Breakout", level |-> lv.hist_high_20]
        ELSE Hold
    ELSE IF active_strategy = "TURTLE" THEN
        IF current_status = "NEUTRAL" /\ Gt(price, lv.hist_high)
        THEN [signal |-> "BUY", reason |-> "Turtle Entry", level |-> lv.hist_high]
        ELSE IF current_status = "LONG" /\ Lt(price, lv.hist_low)
        THEN [signal |-> "SELL", reason |-> "Turtle Exit", level |-> lv.hist_low]
        ELSE Hold
    ELSE
        IF current_status = "NEUTRAL" /\ Lt(price, LowerBand(lv.sma, lv.std))
        THEN [signal |-> "BUY", reason |-> "Dip Buy", level |-> LowerBand(lv.sma, lv.std)]
        ELSE IF current_status = "LONG" /\ Gt(price, lv.sma)
        THEN [signal |-> "SELL", reason |-> "Mean Revert", level |-> lv.sma]
        ELSE Hold

\* the rolling levels computed under each strategy (lines 203, 209-210, 216-217)
LevelInputs(active_strategy) ==
    IF active_strategy = "SQUEEZE" THEN
        {[NoLevels EXCEPT !.hist_high_20 = h] : h \in Levels}
    ELSE IF active_strategy = "TURTLE" THEN
        {[NoLevels EXCEPT !.hist_high = h, !.hist_low = l] : h \in Levels, l \in Levels}
    ELSE
        {[NoLevels EXCEPT !.sma = m, !.std = d] : m \in Levels, d \in Stds}

\* lines 140-147 returning the risk-sized quantity without the cap of line 147
calculate_position_size_uncapped(price, volatility, equity) ==
    IF volatility = 0 \/ price = 0 THEN 0
    ELSE IF volatility = NaN \/ price = NaN THEN NaN
    ELSE MulDiv(equity, RISK_NUM, RISK_DEN) \div (2 * volatility * COMMISSION_DEN)

\* lines 140-147 with stop_distance = volatility at line 143
calculate_position_size_one_atr(price, volatility, equity) ==
    IF volatility = 0 \/ price = 0 THEN 0
    ELSE IF volatility = NaN \/ price = NaN THEN NaN
    ELSE Min(MulDiv(equity, RISK_NUM, RISK_DEN) \div (volatility * COMMISSION_DEN),
             MulDiv(equity, MAX_POS_NUM, MAX_POS_DEN) \div (price * COMMISSION_DEN))

\* lines 140-147; total_equity in money units, the result in whole shares;
\* a NaN volatility passes the tests of line 141 and makes the result NaN
calculate_position_size(price, volatility, equity) ==
    IF volatility = 0 \/ price = 0 THEN 0
    ELSE IF volatility = NaN \/ price = NaN THEN NaN
    ELSE LET risk_dollars     == MulDiv(equity, RISK_NUM, RISK_DEN)
             stop_distance    == 2 * volatility
             shares           == risk_dollars \div (stop_distance * COMMISSION_DEN)
             max_position_val == MulDiv(equity, MAX_POS_NUM, MAX_POS_DEN)
         IN  IF stop_distance = 0 THEN 0
             ELSE Min(shares, max_position_val \div (price * COMMISSION_DEN))

\* line 153: current_prices.get(ticker, info['entry_price'])
QuoteOr(cp, ticker, entry_price) ==
    IF ticker \in DOMAIN cp THEN cp[ticker] ELSE entry_price

RECURSIVE HeldValue(_, _, _)
HeldValue(positions, cp, k) ==
    IF k = 0 THEN 0
    ELSE LET info == positions[Tickers[k]]
         IN  HeldValue(positions, cp, k - 1)
             + (IF info.shares > 0
                THEN info.shares * QuoteOr(cp, Tickers[k], info.entry_price) * COMMISSION_DEN
                ELSE 0)

\* lines 149-155
get_current_equity(st, cp) == st.cash + HeldValue(st.positions, cp, Len(Tickers))

\* line 97 and lines 61-67: one call of send_telegram
send_telegram(n) == n + 1

\* lines 93-101 without the call of line 97
log_trade_silent(st, n, run, ticker, action, price, shares, reason, balance) ==
    [state |-> [st EXCEPT !.logs = Append(@,
                    [ts |-> run, ticker |-> ticker, action |-> action, price |-> price,
                     shares |-> shares, balance |-> balance, reason |-> reason])],
     sent  |-> n]

\* lines 93-101: the notification, then the entry appended to state['logs']
log_trade(st, n, run, ticker, action, price, shares, reason, balance) ==
    [state |-> [st EXCEPT !.logs = Append(@,
                    [ts |-> run, ticker |-> ticker, action |-> action, price |-> price,
                     shares |-> shares, balance |-> balance, reason |-> reason])],
     sent  |-> send_telegram(n)]

\* lines 89-90 keeping state['logs'][:50]
TrimLogsOldest(logs) ==
    IF Len(logs) > LOG_LIMIT THEN SubSeq(logs, 1, LOG_LIMIT) ELSE logs

\* lines 89-90
TrimLogs(logs) ==
    IF Len(logs) > LOG_LIMIT
    THEN SubSeq(logs, Len(logs) - LOG_LIMIT + 1, Len(logs))
    ELSE logs

\* line 225: cost = (shares * price) * (1 + COMMISSION_RATE), in money units
Cost(shares, price) ==
    IF shares = NaN \/ price = NaN THEN NaN
    ELSE shares * price * (COMMISSION_DEN + COMMISSION_NUM)

\* line 233 without the commission
RevenueGross(shares, price) == shares * price * COMMISSION_DEN

\* line 233: revenue = (shares * price) * (1 - COMMISSION_RATE), in money units
Revenue(shares, price) == shares * price * (COMMISSION_DEN - COMMISSION_NUM)

\* line 226 without "and shares > 0"
EntryCommitsEmpty(cost, cash, shares) == Lt(cost, cash)

\* line 226 without "cost < state['cash']"
EntryCommitsUnpaid(cost, cash, shares) == Gt(shares, 0)

\* line 226: the entry is committed only when it is paid for and not empty
EntryCommits(cost, cash, shares) == Lt(cost, cash) /\ Gt(shares, 0)

\* line 228
EntryPosition(shares, price) ==
    [status |-> "LONG", shares |-> shares, entry_price |-> price]

\* line 235 resetting the status only
ExitPositionStale(pos_data) == [pos_data EXCEPT !.status = "NEUTRAL"]

\* line 235: the position that replaces pos_data
ExitPosition(pos_data) == [status |-> "NEUTRAL", shares |-> 0, entry_price |-> 0]

\* what a sweep step saw: the active strategy and its signal, and for BUY and
\* SELL the price, the quantity sized or held, the cost or revenue computed
\* from it and, for SELL, the level the exit rule compared the price with
StepRecord(signal, ticker, strategy, price, shares, cost, level) ==
    [signal |-> signal, ticker |-> ticker, strategy |-> strategy, price |-> price,
     shares |-> shares, cost |-> cost, level |-> level]

\* lines 222-236: the execution of one signal on the in-memory ledger
ExecuteSignal(st, n, run, ticker, active_strategy, sig, price, atr_val, equity) ==
    LET pos_data == st.positions[ticker]
        current_status == pos_data.status
    IN
    IF sig.signal = "BUY" /\ st.cash > 0 THEN
        LET shares == calculate_position_size(price, atr_val, equity)
            cost   == Cost(shares, price)
        IN  IF EntryCommits(cost, st.cash, shares)
            THEN LET st1 == [st EXCEPT !.cash = @ - cost]
                     st2 == [st1 EXCEPT !.positions[ticker] = EntryPosition(shares, price)]
                     lt  == log_trade(st2, n, run, ticker, "BUY", price, shares,
                                      sig.reason, equity)
                 IN  [state |-> lt.state, sent |-> lt.sent,
                      step |-> StepRecord("BUY", ticker, active_strategy, price,
                                          shares, cost, 0)]
            ELSE [state |-> st, sent |-> n,
                  step |-> StepRecord("BUY", ticker, active_strategy, price,
                                      shares, cost, 0)]
    ELSE IF sig.signal = "SELL" /\ current_status = "LONG" THEN
        LET shares  == pos_data.shares
            revenue == Revenue(shares, price)
            st1 == [st EXCEPT !.cash = @ + revenue]
            st2 == [st1 EXCEPT !.positions[ticker] = ExitPosition(pos_data)]
            lt  == log_trade(st2, n, run, ticker, "SELL", price, shares,
                             sig.reason, equity)
        IN  [state |-> lt.state, sent |-> lt.sent,
             step |-> StepRecord("SELL", ticker, active_strategy, price, shares,
                                 revenue, sig.level)]
    ELSE [state |-> st, sent |-> n,
          step |-> StepRecord(sig.signal, ticker, active_strategy, 0, 0, 0, 0)]

\* get_state taking the else branch of line 76 whatever the store holds
LoadedLedgerFresh(d) == initial_state

\* get_state, lines 74-84: the document when it exists, else the default ledger
LoadedLedger(d) == IF d # NoDoc THEN d ELSE initial_state

(* ------------------------------ actions ------------------------------- *)

InFlight(j) == pc[j] \in {"valuation", "sweep", "save"}

\* a request goes to the first idle worker, while requests are left to start
Accepts(i) ==
    /\ pc[i] = "idle"
    /\ \A j \in Invs : j < i => pc[j] # "idle"
    /\ runs < MaxRuns

\* the workers are idle and the store holds no document yet
MainInit ==
    /\ db \in {"client", "None"}
    /\ doc = NoDoc
    /\ pc = [i \in Invs |-> "idle"]
    /\ state = [i \in Invs |-> NoDoc]
    /\ current_prices = [i \in Invs |-> <<>>]
    /\ total_equity = [i \in Invs |-> 0]
    /\ idx = [i \in Invs |-> 0]
    /\ last = [i \in Invs |-> NoStep]
    /\ sent = [i \in Invs |-> 0]
    /\ base = [i \in Invs |-> NoBase]
    /\ prev = [i \in Invs |-> NoPrev]
    /\ response = [i \in Invs |-> NoResponse]
    /\ runs = 0
    /\ overlap = FALSE

Init == MainInit /\ probe = NoProbe

\* execute() answers and the invocation ends (lines 250-256)
Answer(i, status, message) ==
    /\ pc' = [pc EXCEPT ![i] = "done"]
    /\ response' = [response EXCEPT ![i] = [status |-> status, message |-> message]]

\* lines 159-160: outside trading hours nothing is read
MarketClosed(i) ==
    /\ Accepts(i)
    /\ runs' = runs + 1
    /\ Answer(i, "success", "Market Closed")
    /\ UNCHANGED <<db, doc, state, current_prices, total_equity, idx, last, sent,
                   base, prev, overlap, probe>>

\* lines 162-163 with get_state, line 70: no client, "Database Error" is returned
\* and execute() wraps it as any other result string
DatabaseError(i) ==
    /\ Accepts(i)
    /\ db = "None"
    /\ runs' = runs + 1
    /\ Answer(i, "success", "Database Error")
    /\ UNCHANGED <<db, doc, state, current_prices, total_equity, idx, last, sent,
                   base, prev, overlap, probe>>

\* get_state, lines 71-72: the store does not answer, the exception reaches
\* execute(), lines 255-256
GetStateRaises(i) ==
    /\ Accepts(i)
    /\ db = "client"
    /\ runs' = runs + 1
    /\ Answer(i, "error", "exception")
    /\ UNCHANGED <<db, doc, state, current_prices, total_equity, idx, last, sent,
                   base, prev, overlap, probe>>

\* get_state, lines 71-84 without the write of line 83
GetStateUnsaved(i) ==
    /\ Accepts(i)
    /\ db = "client"
    /\ runs' = runs + 1
    /\ LET loaded == LoadedLedger(doc)
       IN  /\ state' = [state EXCEPT ![i] = loaded]
           /\ base' = [base EXCEPT ![i] = [state |-> loaded, found |-> doc,
                                            run |-> runs + 1]]
           /\ prev' = [prev EXCEPT ![i] = [state |-> loaded, sent |-> 0]]
    /\ overlap' = (overlap \/ \E j \in Invs \ {i} : InFlight(j))
    /\ pc' = [pc EXCEPT ![i] = "valuation"]
    /\ sent' = [sent EXCEPT ![i] = 0]
    /\ last' = [last EXCEPT ![i] = NoStep]
    /\ UNCHANGED <<db, doc, current_prices, total_equity, idx, response, probe>>

\* get_state, lines 71-84: the document, or the default ledger written first
GetState(i) ==
    /\ Accepts(i)
    /\ db = "client"
    /\ runs' = runs + 1
    /\ LET loaded == LoadedLedger(doc)
       IN  /\ doc' = loaded
           /\ state' = [state EXCEPT ![i] = loaded]
           /\ base' = [base EXCEPT ![i] = [state |-> loaded, found |-> doc,
                                            run |-> runs + 1]]
           /\ prev' = [prev EXCEPT ![i] = [state |-> loaded, sent |-> 0]]
    /\ overlap' = (overlap \/ \E j \in Invs \ {i} : InFlight(j))
    /\ pc' = [pc EXCEPT ![i] = "valuation"]
    /\ sent' = [sent EXCEPT ![i] = 0]
    /\ last' = [last EXCEPT ![i] = NoStep]
    /\ UNCHANGED <<db, current_prices, total_equity, idx, response, probe>>

\* the tickers whose quote line 152 lets the valuation read
Held(st) == {t \in TickerSet : st.positions[t].shares > 0}

\* lines 165-171: the quotes that arrived, and the equity figure of the cycle;
\* of the dict only the quotes of held tickers are kept, no others are ever read
Valuation(i) ==
    /\ pc[i] = "valuation"
    /\ \E got \in SUBSET TickerSet :
         \E cp \in [got -> Prices] :
            /\ current_prices' = [current_prices EXCEPT ![i] =
                    [t \in got \cap Held(state[i]) |-> cp[t]]]
            /\ total_equity' = [total_equity EXCEPT ![i] = get_current_equity(state[i], cp)]
    /\ pc' = [pc EXCEPT ![i] = "sweep"]
    /\ idx' = [idx EXCEPT ![i] = 1]
    /\ UNCHANGED <<db, doc, state, last, sent, base, prev, response, runs, overlap,
                   probe>>

\* the loop header, line 174: the next ticker, or save_state after the last
Advance(i) ==
    /\ idx' = [idx EXCEPT ![i] = @ + 1]
    /\ pc' = [pc EXCEPT ![i] = IF idx[i] = Len(Tickers) THEN "save" ELSE "sweep"]

\* lines 176-177 ending the cycle with an error instead of "continue"
StepNoDataAborts(i) ==
    /\ pc[i] = "sweep"
    /\ last' = [last EXCEPT ![i] = [NoStep EXCEPT !.signal = "nodata",
                                                  !.ticker = Tickers[idx[i]]]]
    /\ prev' = [prev EXCEPT ![i] = [state |-> state[i], sent |-> sent[i]]]
    /\ Answer(i, "error", "No Data")
    /\ UNCHANGED <<db, doc, state, current_prices, total_equity, idx, sent, base,
                   runs, overlap, probe>>

\* lines 176-177: no history, the ticker is skipped
StepNoData(i) ==
    /\ pc[i] = "sweep"
    /\ last' = [last EXCEPT ![i] = [NoStep EXCEPT !.signal = "nodata",
                                                  !.ticker = Tickers[idx[i]]]]
    /\ prev' = [prev EXCEPT ![i] = [state |-> state[i], sent |-> sent[i]]]
    /\ Advance(i)
    /\ UNCHANGED <<db, doc, state, current_prices, total_equity, sent, base, response,
                   runs, overlap, probe>>

\* lines 179-236 with the equity revalued at every ticker instead of line 171
StepTickerLiveEquity(i) ==
    /\ pc[i] = "sweep"
    /\ \E price \in Prices, atr_val \in Atrs, adx \in Adxs, sma_200 \in Sma200s :
         LET ticker == Tickers[idx[i]]
             active_strategy ==
                 SelectStrategy(AtrPct(atr_val, price), adx, price, sma_200)
         IN  \E lv \in LevelInputs(active_strategy) :
               LET sig == GenerateSignal(active_strategy,
                                         state[i].positions[ticker].status, price, lv)
                   out == ExecuteSignal(state[i], sent[i], base[i].run, ticker,
                                        active_strategy, sig, price, atr_val,
                                        get_current_equity(state[i], current_prices[i]))
               IN  /\ state' = [state EXCEPT ![i] = out.state]
                   /\ sent' = [sent EXCEPT ![i] = out.sent]
                   /\ last' = [last EXCEPT ![i] = out.step]
    /\ prev' = [prev EXCEPT ![i] = [state |-> state[i], sent |-> sent[i]]]
    /\ Advance(i)
    /\ UNCHANGED <<db, doc, current_prices, total_equity, base, response, runs,
                   overlap, probe>>

\* lines 179-236 followed by a save_state of the ledger after every ticker
StepTickerCheckpoint(i) ==
    /\ pc[i] = "sweep"
    /\ \E price \in Prices, atr_val \in Atrs, adx \in Adxs, sma_200 \in Sma200s :
         LET ticker == Tickers[idx[i]]
             active_strategy ==
                 SelectStrategy(AtrPct(atr_val, price), adx, price, sma_200)
         IN  \E lv \in LevelInputs(active_strategy) :
               LET sig == GenerateSignal(active_strategy,
                                         state[i].positions[ticker].status, price, lv)
                   out == ExecuteSignal(state[i], sent[i], base[i].run, ticker,
                                        active_strategy, sig, price, atr_val,
                                        total_equity[i])
               IN  /\ state' = [state EXCEPT ![i] = out.state]
                   /\ doc' = out.state
                   /\ sent' = [sent EXCEPT ![i] = out.sent]
                   /\ last' = [last EXCEPT ![i] = out.step]
    /\ prev' = [prev EXCEPT ![i] = [state |-> state[i], sent |-> sent[i]]]
    /\ Advance(i)
    /\ UNCHANGED <<db, current_prices, total_equity, base, response, runs,
                   overlap, probe>>

\* lines 179-236: one ticker with history
StepTicker(i) ==
    /\ pc[i] = "sweep"
    /\ \E price \in Prices, atr_val \in Atrs, adx \in Adxs, sma_200 \in Sma200s :
         LET ticker == Tickers[idx[i]]
             active_strategy ==
                 SelectStrategy(AtrPct(atr_val, price), adx, price, sma_200)
         IN  \E lv \in LevelInputs(active_strategy) :
               LET sig == GenerateSignal(active_strategy,
                                         state[i].positions[ticker].status, price, lv)
                   out == ExecuteSignal(state[i], sent[i], base[i].run, ticker,
                                        active_strategy, sig, price, atr_val,
                                        total_equity[i])
               IN  /\ state' = [state EXCEPT ![i] = out.state]
                   /\ sent' = [sent EXCEPT ![i] = out.sent]
                   /\ last' = [last EXCEPT ![i] = out.step]
    /\ prev' = [prev EXCEPT ![i] = [state |-> state[i], sent |-> sent[i]]]
    /\ Advance(i)
    /\ UNCHANGED <<db, doc, current_prices, total_equity, base, response, runs,
                   overlap, probe>>

\* save_state, line 91: the write fails, the exception reaches execute()
SaveStateRaises(i) ==
    /\ pc[i] = "save"
    /\ db = "client"
    /\ state' = [state EXCEPT ![i].logs = TrimLogs(@)]
    /\ Answer(i, "error", "exception")
    /\ UNCHANGED <<db, doc, current_prices, total_equity, idx, last, sent, base,
                   prev, runs, overlap, probe>>

\* save_state, lines 86-91, and the return of line 239
SaveState(i) ==
    /\ pc[i] = "save"
    /\ LET trimmed == [state[i] EXCEPT !.logs = TrimLogs(@)]
       IN  /\ state' = [state EXCEPT ![i] = IF db = "None" THEN @ ELSE trimmed]
           /\ doc' = IF db = "None" THEN doc ELSE trimmed
    /\ Answer(i, "success", "Logic Executed Successfully")
    /\ UNCHANGED <<db, current_prices, total_equity, idx, last, sent, base,
                   prev, runs, overlap, probe>>

\* the worker is free for the next request; the locals of the call are gone
Return(i) ==
    /\ pc[i] = "done"
    /\ runs < MaxRuns
    /\ pc' = [pc EXCEPT ![i] = "idle"]
    /\ state' = [state EXCEPT ![i] = NoDoc]
    /\ current_prices' = [current_prices EXCEPT ![i] = <<>>]
    /\ total_equity' = [total_equity EXCEPT ![i] = 0]
    /\ idx' = [idx EXCEPT ![i] = 0]
    /\ last' = [last EXCEPT ![i] = NoStep]
    /\ sent' = [sent EXCEPT ![i] = 0]
    /\ base' = [base EXCEPT ![i] = NoBase]
    /\ prev' = [prev EXCEPT ![i] = NoPrev]
    /\ response' = [response EXCEPT ![i] = NoResponse]
    /\ UNCHANGED <<db, doc, runs, overlap, probe>>

Next ==
    \E i \in Invs :
        \/ MarketClosed(i)
        \/ DatabaseError(i)
        \/ GetStateRaises(i)
        \/ GetState(i)
        \/ Valuation(i)
        \/ StepNoData(i)
        \/ StepTicker(i)
        \/ SaveStateRaises(i)
        \/ SaveState(i)
        \/ Return(i)

Spec == Init /\ [][Next]_vars

(* ------------------- the regime classifier on its own ------------------ *)

\* atr_pct readings around the 1.0% threshold, in 1/100 percent
RegimeAtrPcts == {NaN, 0, 50, 99, 100, 101, 250}

\* adx readings around the threshold 25
RegimeAdxs == {NaN, 0, 24, 25, 26, 60}

RegimePrices == {100, 150, 1100}

RegimeSma200s == {NaN, 100, 150, 200}

RegimeInit ==
    /\ MainInit
    /\ db = "client"
    /\ probe \in [fn : {"regime"}, atr_pct : RegimeAtrPcts, adx : RegimeAdxs,
                  price : RegimePrices, sma_200 : RegimeSma200s, out : {"pending"}]

\* lines 185-193 applied to one indicator snapshot
Classify ==
    /\ probe.fn = "regime"
    /\ probe.out = "pending"
    /\ probe' = [probe EXCEPT !.out =
                    SelectStrategy(probe.atr_pct, probe.adx, probe.price, probe.sma_200)]
    /\ UNCHANGED mainVars

RegimeNext == Classify

SpecRegime == RegimeInit /\ [][RegimeNext]_vars

(* ------------- the indicators of a frame of a given length -------------- *)

\* lengths of the downloaded frame around the windows 14, 28 and 200
AdxBars == {1, 13, 14, 27, 28, 29, 199, 200, 300}

\* ATR values of a long enough frame: 0.5% and 20% of the price 100
AdxAtrs == {0, 20}

\* probe.dx, probe.atr and probe.mean are what the indicator formulas give on
\* the bars; the length of the frame decides whether they are used
AdxInit ==
    /\ MainInit
    /\ db = "client"
    /\ probe \in [fn : {"adx"}, bars : AdxBars, dx : RegimeAdxs, atr : AdxAtrs,
                  price : {100, 1100}, mean : {150}, adx : {0}, out : {"pending"}]

\* lines 179-193 on one frame
ClassifyBars ==
    /\ probe.fn = "adx"
    /\ probe.out = "pending"
    /\ LET atr_val == get_atr(probe.bars, probe.atr)
           adx     == get_adx(probe.bars, probe.dx)
           sma_200 == Sma200(probe.bars, probe.mean)
       IN  probe' = [probe EXCEPT
                        !.adx = adx,
                        !.out = SelectStrategy(AtrPct(atr_val, probe.price), adx,
                                               probe.price, sma_200)]
    /\ UNCHANGED mainVars

AdxNext == ClassifyBars

SpecAdx == AdxInit /\ [][AdxNext]_vars

(* ---------------- the breakout levels of a downloaded frame ------------- *)

\* lengths of the frame: around the squeeze window, and long enough for a
\* 200-bar mean
BreakoutBars == {14, 19, 20, 21, 22, 200, 201}

\* how many bars before the current one the extreme bar lies; 0 is the
\* current bar itself
PeakOffsets == {0, 1, 19, 20, 21, 34, 35, 36, 49, 50, 51, 64, 65, 66}

\* a frame of n bars with highs 100 and lows 90, except for one bar, off bars
\* before the last, with the high 120 and the low 80
Frame(n, off) ==
    [High |-> [k \in 1..n |-> IF k = n - off THEN 120 ELSE 100],
     Low  |-> [k \in 1..n |-> IF k = n - off THEN 80 ELSE 90]]

BreakoutInit ==
    /\ MainInit
    /\ db = "client"
    /\ \E n \in BreakoutBars, off \in PeakOffsets :
          /\ off < n
          /\ probe \in [fn : {"breakout"}, df : {Frame(n, off)}, ticker : TickerSet,
                        price : {85, 110}, atr : AdxAtrs,
                        current_status : {"NEUTRAL", "LONG"},
                        strategy : {"pending"}, lv : {NoLevels}, sig : {Hold}]

\* lines 179-220 on one frame: indicators, strategy, levels and signal
BreakoutStep ==
    /\ probe.fn = "breakout"
    /\ probe.strategy = "pending"
    /\ LET bars    == Len(probe.df.High)
           atr_val == get_atr(bars, probe.atr)
           adx     == get_adx(bars, 60)
           sma_200 == Sma200(bars, 50)
           active_strategy ==
               SelectStrategy(AtrPct(atr_val, probe.price), adx, probe.price, sma_200)
           lv == FrameLevels(probe.df, probe.ticker, active_strategy, 100, 0)
       IN  probe' = [probe EXCEPT
                        !.strategy = active_strategy,
                        !.lv = lv,
                        !.sig = GenerateSignal(active_strategy, probe.current_status,
                                               probe.price, lv)]
    /\ UNCHANGED mainVars

BreakoutNext == BreakoutStep

SpecBreakout == BreakoutInit /\ [][BreakoutNext]_vars

(* ----------------------- the sizer on its own -------------------------- *)

SizerPrices == {NaN, 0, 50, 100, 1100}

SizerAtrs == {NaN, 0, 1, 2, 20}

\* total_equity in whole dollars
SizerEquities == {0, 1000, 100000, 150000}

SizerInit ==
    /\ MainInit
    /\ db = "client"
    /\ probe \in [fn : {"sizer"}, price : SizerPrices, volatility : SizerAtrs,
                  equity : SizerEquities, out : {0}, done : {FALSE}]

\* lines 140-147 applied to one input
Size ==
    /\ probe.fn = "sizer"
    /\ ~probe.done
    /\ probe' = [probe EXCEPT !.out =
                    calculate_position_size(probe.price, probe.volatility,
                                            probe.equity * COMMISSION_DEN),
                              !.done = TRUE]
    /\ UNCHANGED mainVars

SizerNext == Size

SpecSizer == SizerInit /\ [][SizerNext]_vars

(* ------------------ save_state and get_state on their own --------------- *)

\* the entry log_trade appends for the trade numbered ts
RtEntry(ts) ==
    log_trade(initial_state, 0, ts, Tickers[1], "BUY", 100, 1, "Dip Buy",
              INITIAL_CAPITAL * COMMISSION_DEN).state.logs[1]

\* ledgers as a cycle hands them to save_state: some cash, the first ticker
\* held or not, and a log of n trades
RtLedgers ==
    {[cash      |-> c,
      positions |-> [t \in TickerSet |-> IF t = Tickers[1] THEN p ELSE NEUTRAL_POS],
      logs      |-> [k \in 1..n |-> RtEntry(k)]] :
        c \in {0, INITIAL_CAPITAL * COMMISSION_DEN},
        p \in {NEUTRAL_POS, EntryPosition(240, 100)},
        n \in 0..MaxLogLen}

\* probe.state is the ledger in memory, probe.doc the stored document,
\* probe.saved the ledger as it was handed to the latest save_state, and
\* probe.fresh tells that probe.state is as get_state returned it
RoundTripInit ==
    /\ MainInit
    /\ db = "client"
    /\ \E L \in RtLedgers :
          probe = [fn |-> "roundtrip", state |-> L, doc |-> NoDoc, saved |-> NoDoc,
                   fresh |-> FALSE, appended |-> 0]

\* save_state, lines 86-91, at the end of a cycle
RtSaveState ==
    /\ probe.fn = "roundtrip"
    /\ probe.state # NoDoc
    /\ probe' = [probe EXCEPT !.doc = [probe.state EXCEPT !.logs = TrimLogs(@)],
                              !.saved = probe.state,
                              !.state = NoDoc,
                              !.fresh = FALSE]
    /\ UNCHANGED mainVars

\* get_state, lines 69-84, at the start of the next cycle
RtGetState ==
    /\ probe.fn = "roundtrip"
    /\ probe.state = NoDoc
    /\ probe' = [probe EXCEPT !.state = LoadedLedger(probe.doc),
                              !.doc = LoadedLedger(probe.doc),
                              !.fresh = TRUE]
    /\ UNCHANGED mainVars

\* log_trade, lines 93-101, for a trade of the cycle that loaded the ledger
RtLogTrade ==
    /\ probe.fn = "roundtrip"
    /\ probe.state # NoDoc
    /\ probe.saved # NoDoc
    /\ probe.appended < MaxAppends
    /\ probe' = [probe EXCEPT
                    !.state = [@ EXCEPT !.logs =
                                  Append(@, RtEntry(MaxLogLen + probe.appended + 1))],
                    !.appended = @ + 1,
                    !.fresh = FALSE]
    /\ UNCHANGED mainVars

RoundTripNext == RtSaveState \/ RtGetState \/ RtLogTrade

SpecRoundTrip == RoundTripInit /\ [][RoundTripNext]_vars

(* ----------------------------- properties ----------------------------- *)

\* the ledgers that exist: the stored document and every ledger held in memory
Ledgers ==
    {state[i] : i \in {j \in Invs : state[j] # NoDoc}}
        \cup (IF doc # NoDoc THEN {doc} ELSE {})

\* worker i's latest sweep step was a BUY signal that was committed
EntryCommitted(i) ==
    /\ last[i].signal = "BUY"
    /\ state[i].positions[last[i].ticker].status = "LONG"

\* C1: in every ledger, stored or in memory, at every step of a cycle, each
\* position is either NEUTRAL with 0 shares and entry price 0, or LONG with
\* shares > 0 and entry price > 0.
C1_PositionShape ==
    \A L \in Ledgers : \A t \in TickerSet :
        LET p == L.positions[t]
        IN  /\ p.status \in {"NEUTRAL", "LONG"}
            /\ (p.status = "NEUTRAL") <=> (p.shares = 0)
            /\ (p.shares = 0) <=> (p.entry_price = 0)
            /\ (p.status = "LONG") <=> (p.shares > 0)
            /\ (p.shares > 0) <=> (p.entry_price > 0)

\* C1 witness: a cycle has just closed one position while another is open, and
\* the stored ledger holds an open position.
C1_Witness ==
    \E i \in Invs :
        /\ last[i].signal = "SELL"
        /\ state[i].positions[last[i].ticker] = NEUTRAL_POS
        /\ \E t \in TickerSet : state[i].positions[t].status = "LONG"
        /\ \E t \in TickerSet : doc.positions[t].shares > 0

\* C2: cash is never negative in any ledger, stored or in memory; in
\* particular not after a committed entry.
C2_CashNonNegative == \A L \in Ledgers : L.cash >= 0

\* C2 witness: an entry was committed in a cycle that started with positions
\* already held, so that less cash than the default was available.
C2_Witness ==
    \E i \in Invs :
        /\ EntryCommitted(i)
        /\ state[i].cash >= 0
        /\ state[i].cash + last[i].cost < INITIAL_CAPITAL * COMMISSION_DEN

\* 24% of an equity figure, rounded down to a money unit
CapValue(equity) == MulDiv(equity, MAX_POS_NUM, MAX_POS_DEN)

\* the value shares x price of the position worker i holds in a ticker
PositionValue(st, ticker) ==
    st.positions[ticker].shares * st.positions[ticker].entry_price * COMMISSION_DEN

\* C3 as amended: the value of every committed entry is at most 24% of the
\* equity figure computed at the start of its cycle.
C3_CapOfCycleEquity ==
    \A i \in Invs :
        EntryCommitted(i) =>
            PositionValue(state[i], last[i].ticker) <= CapValue(total_equity[i])

\* C3 witness: the second trade of one cycle is an entry of exactly 24% of the
\* cycle's equity figure.
C3_Witness ==
    \E i \in Invs :
        /\ EntryCommitted(i)
        /\ sent[i] = 2
        /\ ((total_equity[i] % MAX_POS_DEN) * MAX_POS_NUM) % MAX_POS_DEN = 0
        /\ PositionValue(state[i], last[i].ticker) = CapValue(total_equity[i])

\* C3 as stated: the value of every committed entry is at most 24% of the
\* portfolio's equity immediately before that trade.
C3_CapOfPreTradeEquity ==
    \A i \in Invs :
        EntryCommitted(i) =>
            PositionValue(state[i], last[i].ticker)
                <= CapValue(get_current_equity(prev[i].state, current_prices[i]))

\* worker i has taken a sweep step of the current cycle, and last[i], prev[i]
\* describe it
AfterStep(i) == pc[i] \in {"sweep", "save"} /\ last[i].signal # "none"

\* the position of a ticker in the sweep
IndexOf(ticker) == CHOOSE k \in 1..Len(Tickers) : Tickers[k] = ticker

\* after the step for last[i].ticker the sweep stands at the next ticker, or
\* at save_state after the last one, and no error has been answered
SweepContinues(i) ==
    /\ idx[i] = IndexOf(last[i].ticker) + 1
    /\ pc[i] = (IF IndexOf(last[i].ticker) = Len(Tickers) THEN "save" ELSE "sweep")
    /\ response[i] = NoResponse

\* C4: a BUY signal whose cost reaches the cash, whose sized quantity is 0, or
\* that meets no positive cash, changes nothing: ledger (cash, positions, log)
\* and notifications are as before the step, and the sweep goes on.
C4_DroppedEntry ==
    \A i \in Invs :
        (/\ AfterStep(i)
         /\ last[i].signal = "BUY"
         /\ \/ last[i].cost >= prev[i].state.cash
            \/ last[i].shares = 0
            \/ prev[i].state.cash <= 0)
        => /\ state[i] = prev[i].state
           /\ sent[i] = prev[i].sent
           /\ SweepContinues(i)

\* C4 witness: a BUY for a positive quantity was dropped for lack of cash.
C4_Witness ==
    \E i \in Invs :
        /\ AfterStep(i)
        /\ last[i].signal = "BUY"
        /\ last[i].shares > 0
        /\ last[i].cost >= prev[i].state.cash
        /\ state[i] = prev[i].state

\* C5: after a SELL signal the ticker was LONG before the step, the cash grew
\* by exactly shares x price x (1 - commission) for the whole holding, the
\* position is {NEUTRAL, 0, 0} and every other position is untouched.
C5_ExitExecutes ==
    \A i \in Invs :
        (AfterStep(i) /\ last[i].signal = "SELL") =>
            LET t    == last[i].ticker
                held == prev[i].state.positions[t]
            IN  /\ held.status = "LONG"
                /\ state[i].cash = prev[i].state.cash
                      + held.shares * last[i].price * (COMMISSION_DEN - COMMISSION_NUM)
                /\ state[i].positions[t] = NEUTRAL_POS
                /\ \A u \in TickerSet \ {t} :
                      state[i].positions[u] = prev[i].state.positions[u]

\* C5 witness: a position was sold while another ticker was held.
C5_Witness ==
    \E i \in Invs :
        /\ AfterStep(i)
        /\ last[i].signal = "SELL"
        /\ state[i].cash > prev[i].state.cash
        /\ \E u \in TickerSet \ {last[i].ticker} : state[i].positions[u].status = "LONG"

\* the tickers whose status differs between two ledgers
Transitions(before, after) ==
    {t \in TickerSet : before.positions[t].status # after.positions[t].status}

\* C6: the classifier returns SQUEEZE exactly when atr_pct < 1.0, TURTLE exactly
\* when atr_pct is not below 1.0 and adx > 25 and price > sma_200, and MEAN_REV
\* in every other case.
C6_RegimePriority ==
    (probe.fn = "regime" /\ probe.out # "pending") =>
        LET squeeze == probe.atr_pct # NaN /\ probe.atr_pct < SQUEEZE_ATR_PCT
            trend   == /\ probe.adx # NaN /\ probe.adx > TURTLE_ADX
                       /\ probe.sma_200 # NaN /\ probe.price > probe.sma_200
        IN  /\ probe.out \in {"SQUEEZE", "TURTLE", "MEAN_REV"}
            /\ (probe.out = "SQUEEZE") <=> squeeze
            /\ (probe.out = "TURTLE") <=> (~squeeze /\ trend)
            /\ (probe.out = "MEAN_REV") <=> (~squeeze /\ ~trend)
            /\ probe.atr_pct = SQUEEZE_ATR_PCT => probe.out # "SQUEEZE"
            /\ probe.adx = TURTLE_ADX => probe.out # "TURTLE"

\* C6 witness: a snapshot that meets the squeeze and the trend conditions at once
\* was classified SQUEEZE.
C6_Witness ==
    /\ probe.fn = "regime"
    /\ probe.atr_pct = 99
    /\ probe.adx > TURTLE_ADX
    /\ probe.price > probe.sma_200
    /\ probe.sma_200 # NaN
    /\ probe.out = "SQUEEZE"

\* C7: each sweep step appends as many log entries and sends as many
\* notifications as positions changed status in it (0 or 1); and from the load
\* to the end of the sweep the log has grown by, and the notifications number,
\* exactly the positions that changed status in the cycle.
C7_OneLogOneNotification ==
    \A i \in Invs :
        /\ AfterStep(i) =>
              LET n == Cardinality(Transitions(prev[i].state, state[i]))
              IN  /\ n <= 1
                  /\ Len(state[i].logs) = Len(prev[i].state.logs) + n
                  /\ sent[i] = prev[i].sent + n
        /\ pc[i] \in {"valuation", "sweep", "save"} =>
              LET n == Cardinality(Transitions(base[i].state, state[i]))
              IN  /\ Len(state[i].logs) = Len(base[i].state.logs) + n
                  /\ sent[i] = n

\* C7 witness: a cycle executed an exit and an entry, and logged and notified two.
C7_Witness ==
    \E i \in Invs :
        /\ pc[i] = "save"
        /\ sent[i] = 2
        /\ Len(state[i].logs) = Len(base[i].state.logs) + 2
        /\ \E t \in TickerSet : base[i].state.positions[t].status = "LONG"
                                  /\ state[i].positions[t].status = "NEUTRAL"

\* worker i's invocation ran to the end and wrote its ledger
Saved(i) ==
    /\ pc[i] = "done"
    /\ response[i] = [status |-> "success", message |-> "Logic Executed Successfully"]

IsPrefix(a, b) == Len(a) <= Len(b) /\ SubSeq(b, 1, Len(a)) = a

\* C8 as amended: while no invocation has loaded during another's cycle, the
\* stored log extends the log of every invocation that completed its save, and
\* the stored ledger is the ledger of the latest invocation when that one saved.
C8_SequentialKeepsSavedTrades ==
    ~overlap =>
        \A i \in Invs :
            Saved(i) =>
                /\ IsPrefix(state[i].logs, doc.logs)
                /\ base[i].run = runs => doc = state[i]

\* C8 witness: two overlapping invocations both completed, and the stored
\* ledger lacks a trade that one of them executed, notified and saved.
C8_Witness ==
    /\ overlap
    /\ \A i \in Invs : Saved(i)
    /\ \E i \in Invs :
          /\ sent[i] > 0
          /\ \E e \in Range(state[i].logs) : e \notin Range(doc.logs)
          /\ doc.cash # state[i].cash

\* C8 as stated: without overlap, every trade an ended invocation executed and
\* notified is in the stored ledger.
C8_SequentialNeverLoses ==
    ~overlap =>
        \A i \in Invs :
            (pc[i] = "done" /\ state[i] # NoDoc) =>
                Range(state[i].logs) \subseteq Range(doc.logs)

\* C9: an invocation that got past the trading-hours gate and found the store
\* disabled (no client) or unreachable (the call raised) answers with a status
\* other than "success".
C9_UnavailableIsNotSuccess ==
    \A i \in Invs :
        (/\ pc[i] = "done"
         /\ response[i].message # "Market Closed"
         /\ (db = "None" \/ response[i].message = "exception"))
        => response[i].status # "success"

\* C10: a ticker without history leaves ledger and notifications as they were
\* and the sweep goes on to the next ticker or to the save; and a cycle whose
\* last ticker had no history, when the store takes the write and no other
\* invocation interferes, answers normal completion with its ledger stored.
C10_NoDataSkips ==
    \A i \in Invs :
        /\ (pc[i] \in {"sweep", "save"} /\ last[i].signal = "nodata") =>
              /\ state[i] = prev[i].state
              /\ sent[i] = prev[i].sent
              /\ SweepContinues(i)
        /\ (/\ pc[i] = "done"
            /\ last[i].signal = "nodata"
            /\ response[i].message # "exception")
           => /\ Saved(i)
              /\ (~overlap /\ base[i].run = runs) => doc = state[i]

\* C10 witness: the first ticker had no history, the second one traded, and
\* the sweep reached the save.
C10_Witness ==
    \E i \in Invs :
        /\ pc[i] = "save"
        /\ state[i].positions[Tickers[1]] = base[i].state.positions[Tickers[1]]
        /\ prev[i].state = base[i].state
        /\ last[i].signal = "BUY"
        /\ sent[i] = 1
        /\ \E j \in Invs \ {i} : pc[j] = "done" /\ last[j].signal = "nodata" /\ Saved(j)

\* the log a ledger has after a save and a load: the saved log when it has at
\* most 50 entries, else its last 50 entries in their order
KeptLog(saved, kept) ==
    IF Len(saved) <= LOG_LIMIT THEN kept = saved
    ELSE /\ Len(kept) = LOG_LIMIT
         /\ \A k \in 1..LOG_LIMIT : kept[k] = saved[Len(saved) - LOG_LIMIT + k]

\* C11: the stored document, and the ledger a load returns after a save, have
\* the cash and the positions of the saved ledger and the log KeptLog
\* describes; the stored log never holds more than 50 entries.
C11_RoundTrip ==
    probe.fn = "roundtrip" =>
        /\ probe.doc # NoDoc => Len(probe.doc.logs) <= LOG_LIMIT
        /\ (probe.saved # NoDoc /\ probe.state = NoDoc) =>
              /\ probe.doc.cash = probe.saved.cash
              /\ probe.doc.positions = probe.saved.positions
              /\ KeptLog(probe.saved.logs, probe.doc.logs)
        /\ (probe.saved # NoDoc /\ probe.fresh) =>
              /\ probe.state.cash = probe.saved.cash
              /\ probe.state.positions = probe.saved.positions
              /\ KeptLog(probe.saved.logs, probe.state.logs)
              /\ probe.doc = probe.state

\* C11 witness: a second cycle saved a log of more than 50 entries, and the
\* load returned its last 50 with the oldest dropped.
C11_Witness ==
    /\ probe.fn = "roundtrip"
    /\ probe.fresh
    /\ probe.appended > 0
    /\ Len(probe.saved.logs) = LOG_LIMIT + 2
    /\ Len(probe.state.logs) = LOG_LIMIT
    /\ probe.state.logs[1] = probe.saved.logs[3]
    /\ probe.state.positions[Tickers[1]].status = "LONG"

\* the value, in money units, of the holdings S of a ledger: shares x the
\* quote in cp, or shares x the entry price for a ticker cp has no quote of
RECURSIVE SumValues(_, _, _)
SumValues(S, st, cp) ==
    IF S = {} THEN 0
    ELSE LET t == CHOOSE x \in S : TRUE
             q == IF t \in DOMAIN cp THEN cp[t] ELSE st.positions[t].entry_price
         IN  st.positions[t].shares * q * COMMISSION_DEN + SumValues(S \ {t}, st, cp)

\* the log entries worker i has written since its load
CycleEntries(i) ==
    {state[i].logs[k] : k \in (Len(base[i].state.logs) + 1)..Len(state[i].logs)}

\* C12: throughout the sweep and at the save the cycle's equity figure is the
\* cash of the ledger as loaded plus, for every position held in it, shares x
\* fresh quote or, without a fresh quote, shares x entry price; every log
\* entry written in the cycle carries this figure, and the quantity of every
\* entry sized in the cycle is the sizer's result for this figure, whatever
\* trades the sweep applied before.
C12_OneEquityFigure ==
    \A i \in Invs :
        pc[i] \in {"sweep", "save"} =>
            /\ total_equity[i] =
                  base[i].state.cash
                    + SumValues({t \in TickerSet : base[i].state.positions[t].shares > 0},
                                base[i].state, current_prices[i])
            /\ \A e \in CycleEntries(i) : e.balance = total_equity[i]
            /\ (last[i].signal = "BUY" /\ prev[i].state.cash > 0) =>
                  \E a \in Atrs :
                      last[i].shares =
                          calculate_position_size(last[i].price, a, total_equity[i])

\* C12 witness: a cycle that loaded a held position without a fresh quote for
\* it sold that position and then entered another one, sized and logged with
\* the figure of the start of the cycle, which the sale had made stale.
C12_Witness ==
    \E i \in Invs :
        /\ pc[i] = "save"
        /\ EntryCommitted(i)
        /\ sent[i] = 2
        /\ \E t \in TickerSet :
              /\ base[i].state.positions[t].shares > 0
              /\ t \notin DOMAIN current_prices[i]
              /\ state[i].positions[t] = NEUTRAL_POS
        /\ total_equity[i] # get_current_equity(prev[i].state, current_prices[i])
        /\ state[i].logs[Len(state[i].logs)].balance = total_equity[i]

\* C13: for price > 0, ATR > 0 and equity > 0 the sizer returns the smaller of
\* equity x 0.02 / (2 x ATR) and equity x 0.24 / price (in whole shares), and
\* it returns 0 whenever ATR = 0 or price = 0; equity 100000, ATR 2, price 100
\* gives 240.
C13_SizerFormula ==
    (probe.fn = "sizer" /\ probe.done) =>
        /\ (Gt(probe.price, 0) /\ Gt(probe.volatility, 0) /\ probe.equity > 0) =>
              LET raw == (probe.equity * RISK_NUM) \div (RISK_DEN * 2 * probe.volatility)
                  cap == (probe.equity * MAX_POS_NUM) \div (MAX_POS_DEN * probe.price)
              IN  probe.out = (IF raw < cap THEN raw ELSE cap)
        /\ (probe.volatility = 0 \/ probe.price = 0) => probe.out = 0
        /\ (probe.equity = 100000 /\ probe.volatility = 2 /\ probe.price = 100) =>
              probe.out = 240

\* C13 witness: equity 100000, ATR 2 and price 100 were sized to the capped
\* 240, not to the 500 of the risk budget.
C13_Witness ==
    /\ probe.fn = "sizer"
    /\ probe.done
    /\ probe.equity = 100000
    /\ probe.volatility = 2
    /\ probe.price = 100
    /\ (probe.equity * RISK_NUM) \div (RISK_DEN * 2 * probe.volatility) = 500
    /\ probe.out = 240

\* the default ledger: the fixed initial capital, one NEUTRAL position with 0
\* shares and entry price 0 for every configured ticker and no others, no log
IsDefaultLedger(L) ==
    /\ L.cash = INITIAL_CAPITAL * COMMISSION_DEN
    /\ DOMAIN L.positions = TickerSet
    /\ \A t \in TickerSet :
          /\ L.positions[t].status = "NEUTRAL"
          /\ L.positions[t].shares = 0
          /\ L.positions[t].entry_price = 0
    /\ L.logs = <<>>

\* C14: right after a load that found no document, the ledger returned is the
\* default ledger and the store holds a document, the default one unless an
\* overlapping invocation has written since; right after a load that found a
\* document, the ledger returned is that document, and the store still holds
\* it unless an overlapping invocation has written since.
C14_LoadCreatesDefault ==
    \A i \in Invs :
        pc[i] = "valuation" =>
            /\ base[i].found = NoDoc =>
                  /\ IsDefaultLedger(state[i])
                  /\ doc # NoDoc
                  /\ ~overlap => IsDefaultLedger(doc)
            /\ base[i].found # NoDoc =>
                  /\ state[i] = base[i].found
                  /\ ~overlap => doc = base[i].found

\* C14 witness: one invocation found no document and saved a ledger with a
\* trade, and the next load returned that ledger and left it in the store.
C14_Witness ==
    \E i \in Invs, j \in Invs :
        /\ pc[j] = "done"
        /\ base[j].found = NoDoc
        /\ IsDefaultLedger(base[j].state)
        /\ state[j].logs # <<>>
        /\ pc[i] = "valuation"
        /\ base[i].found = state[j]
        /\ state[i] = state[j]
        /\ doc = state[j]

\* C15: on a frame of fewer than 28 bars the ADX is exactly 0, whatever the
\* directional index of the bars would be, and the ticker is not classified
\* TURTLE.
C15_ShortHistoryAdxZero ==
    (probe.fn = "adx" /\ probe.out # "pending" /\ probe.bars < 28) =>
        /\ probe.adx = 0
        /\ probe.out # "TURTLE"

\* C15 witness: 27 bars in a strong trend got the ADX 0 and were not
\* classified TURTLE.
C15_Witness ==
    /\ probe.fn = "adx"
    /\ probe.bars = 27
    /\ probe.dx = 60
    /\ probe.atr = 20
    /\ probe.adx = 0
    /\ probe.out = "MEAN_REV"

\* the reasons the rule set of a strategy gives for its signals
ReasonsOf(strategy) ==
    IF strategy = "SQUEEZE" THEN {"Squeeze Breakout"}
    ELSE IF strategy = "TURTLE" THEN {"Turtle Entry", "Turtle Exit"}
    ELSE IF strategy = "MEAN_REV" THEN {"Dip Buy", "Mean Revert"}
    ELSE {}

\* worker i's latest sweep step processed a ticker with history
SignalStep(i) == AfterStep(i) /\ last[i].signal # "nodata"

\* C16: every step for a ticker with history ran under one of the three
\* strategies and gave one of BUY, SELL, HOLD; a trade it logged carries a
\* reason of that strategy's rule set; BUY was given only for a NEUTRAL
\* position and SELL only for a LONG one; and after HOLD the ledger (cash,
\* positions, log) and the notifications are as before the step.
C16_OneRuleSetHoldIsInert ==
    \A i \in Invs :
        SignalStep(i) =>
            LET before == prev[i].state.positions[last[i].ticker].status
            IN  /\ last[i].strategy \in {"SQUEEZE", "TURTLE", "MEAN_REV"}
                /\ last[i].signal \in {"BUY", "SELL", "HOLD"}
                /\ Len(state[i].logs) > Len(prev[i].state.logs) =>
                      state[i].logs[Len(state[i].logs)].reason
                          \in ReasonsOf(last[i].strategy)
                /\ last[i].signal = "BUY" => before = "NEUTRAL"
                /\ last[i].signal = "SELL" => before = "LONG"
                /\ last[i].signal = "HOLD" =>
                      /\ state[i] = prev[i].state
                      /\ sent[i] = prev[i].sent

\* C16 witness: after a trade of the same cycle, the TURTLE rule set gave
\* HOLD for a LONG position and nothing changed.
C16_Witness ==
    \E i \in Invs :
        /\ SignalStep(i)
        /\ last[i].signal = "HOLD"
        /\ last[i].strategy = "TURTLE"
        /\ prev[i].state.positions[last[i].ticker].status = "LONG"
        /\ state[i] = prev[i].state
        /\ sent[i] = 1

\* C17: a step that classified a ticker with a LONG position as SQUEEZE left
\* the ledger, cash and position included, as it was; and whenever a step
\* turned a LONG position NEUTRAL, it was the step of that ticker, classified
\* TURTLE with the price below the exit-window low or classified MEAN_REV
\* with the price above the 20-bar mean.
C17_SqueezeNeverExits ==
    \A i \in Invs :
        SignalStep(i) =>
            /\ (/\ last[i].strategy = "SQUEEZE"
                /\ prev[i].state.positions[last[i].ticker].status = "LONG")
               => /\ state[i] = prev[i].state
                  /\ sent[i] = prev[i].sent
            /\ \A t \in TickerSet :
                  (/\ prev[i].state.positions[t].status = "LONG"
                   /\ state[i].positions[t].status = "NEUTRAL")
                  => /\ t = last[i].ticker
                     /\ last[i].signal = "SELL"
                     /\ \/ last[i].strategy = "TURTLE" /\ Lt(last[i].price, last[i].level)
                        \/ last[i].strategy = "MEAN_REV" /\ Gt(last[i].price, last[i].level)

\* C17 witness: in a later cycle a ticker with a LONG position was classified
\* SQUEEZE and kept its position, while the other ticker's position was
\* closed in the same cycle.
C17_Witness ==
    \E i \in Invs :
        /\ SignalStep(i)
        /\ last[i].strategy = "SQUEEZE"
        /\ last[i].signal = "HOLD"
        /\ prev[i].state.positions[last[i].ticker].status = "LONG"
        /\ state[i].positions[last[i].ticker] = base[i].state.positions[last[i].ticker]
        /\ \E t \in TickerSet :
              /\ base[i].state.positions[t].status = "LONG"
              /\ state[i].positions[t].status = "NEUTRAL"

\* worker i's invocation loaded a ledger and ended with an error
Aborted(i) ==
    /\ pc[i] = "done"
    /\ base[i].state # NoDoc
    /\ response[i].status = "error"

\* C18 as amended: while no invocation has loaded during another's cycle, the
\* store holds the ledger as an invocation loaded it (the default ledger its
\* load created, when there was none) from the load until the save, and
\* still holds it when the invocation aborts; it holds the invocation's final
\* ledger once the save has completed.
C18_NoMidCycleWrite ==
    ~overlap =>
        \A i \in Invs :
            /\ InFlight(i) => doc = base[i].state
            /\ (Aborted(i) /\ base[i].run = runs) => doc = base[i].state
            /\ (Saved(i) /\ base[i].run = runs) => doc = state[i]

\* C18 witness: an invocation that found a stored ledger applied two trades
\* in memory and aborted, and the store still holds the ledger it had loaded.
C18_Witness ==
    \E i \in Invs :
        /\ ~overlap
        /\ Aborted(i)
        /\ base[i].run = runs
        /\ base[i].found # NoDoc
        /\ sent[i] = 2
        /\ doc = base[i].found
        /\ doc.cash # state[i].cash

\* C18 as stated: the store is written only after the sweep, so that after an
\* aborted invocation it holds exactly what it held before the invocation.
C18_AbortLeavesStoreUntouched ==
    ~overlap =>
        \A i \in Invs :
            (Aborted(i) /\ base[i].run = runs) => doc = base[i].found

\* the bars of a frame that precede its most recent bar, w of them
Preceding(series, w) == {series[k] : k \in (Len(series) - w)..(Len(series) - 1)}

\* v is the greatest (least) value of the w bars preceding the most recent
\* bar; NaN when fewer than w bars precede it
IsTrailingHigh(v, series, w) ==
    IF Len(series) - 1 < w THEN v = NaN
    ELSE v \in Preceding(series, w) /\ \A x \in Preceding(series, w) : x <= v

IsTrailingLow(v, series, w) ==
    IF Len(series) - 1 < w THEN v = NaN
    ELSE v \in Preceding(series, w) /\ \A x \in Preceding(series, w) : v <= x

\* C19: under SQUEEZE the entry threshold is the greatest high of the 20 bars
\* preceding the most recent bar, and under TURTLE the thresholds are the
\* greatest high of the Entry bars and the least low of the Exit bars
\* preceding it; the signal compares the price with these thresholds, and
\* when fewer bars than the window precede the most recent bar the
\* threshold is undefined and no breakout signal is given.
C19_ThresholdExcludesCurrentBar ==
    (probe.fn = "breakout" /\ probe.strategy # "pending") =>
        LET high == probe.df.High
            low  == probe.df.Low
            neutral == probe.current_status = "NEUTRAL"
        IN  /\ probe.strategy = "SQUEEZE" =>
                  /\ IsTrailingHigh(probe.lv.hist_high_20, high, 20)
                  /\ (probe.sig.signal = "BUY") <=>
                        (/\ neutral
                         /\ Len(high) - 1 >= 20
                         /\ probe.price > probe.lv.hist_high_20)
                  /\ probe.sig.signal # "SELL"
            /\ probe.strategy = "TURTLE" =>
                  /\ IsTrailingHigh(probe.lv.hist_high, high, config(probe.ticker).Entry)
                  /\ IsTrailingLow(probe.lv.hist_low, low, config(probe.ticker).Exit)
                  /\ (probe.sig.signal = "BUY") <=>
                        (neutral /\ probe.price > probe.lv.hist_high)
                  /\ (probe.sig.signal = "SELL") <=>
                        (~neutral /\ probe.price < probe.lv.hist_low)

\* C19 witness: under SQUEEZE the current bar made a new high of 120, the
\* threshold stayed at the 100 of the 20 bars before it, and the price 110,
\* below the bar's own high, gave BUY.
C19_Witness ==
    /\ probe.fn = "breakout"
    /\ probe.strategy = "SQUEEZE"
    /\ probe.df.High[Len(probe.df.High)] = 120
    /\ probe.lv.hist_high_20 = 100
    /\ probe.price = 110
    /\ probe.sig.signal = "BUY"
    /\ probe.sig.reason = "Squeeze Breakout"

\* position p is what position q can be one or more steps later: q itself,
\* or, when q is LONG, the NEUTRAL position an exit resets it to
KeptOrClosed(q, p) == q.status = "LONG" => p \in {q, NEUTRAL_POS}

\* the places in worker i's log that the current cycle wrote about a ticker
CycleTrades(i, t) ==
    {k \in (Len(base[i].state.logs) + 1)..Len(state[i].logs) :
        state[i].logs[k].ticker = t}

\* C20: a LONG position keeps its shares and entry price through every sweep
\* step and from the load to the end of the cycle, unless an exit resets it
\* to NEUTRAL; a cycle logs at most one trade per ticker, a ticker the sweep
\* has not reached yet has its position as loaded, and a ticker the cycle
\* has traded has changed status exactly once; and across cycles that do not
\* overlap the stored ledger keeps every LONG position as it was, or closed.
C20_NoScalingNoReentry ==
    \A i \in Invs :
        /\ AfterStep(i) =>
              \A t \in TickerSet :
                  KeptOrClosed(prev[i].state.positions[t], state[i].positions[t])
        /\ InFlight(i) =>
              \A t \in TickerSet :
                  /\ KeptOrClosed(base[i].state.positions[t], state[i].positions[t])
                  /\ Cardinality(CycleTrades(i, t)) <= 1
                  /\ (pc[i] = "valuation" \/ (pc[i] = "sweep" /\ IndexOf(t) >= idx[i])) =>
                        state[i].positions[t] = base[i].state.positions[t]
                  /\ (Cardinality(CycleTrades(i, t)) = 1) <=>
                        (state[i].positions[t].status # base[i].state.positions[t].status)
        /\ (~overlap /\ Saved(i) /\ base[i].run = runs /\ base[i].found # NoDoc) =>
              \A t \in TickerSet :
                  KeptOrClosed(base[i].found.positions[t], doc.positions[t])

\* C20 witness: a position entered and saved by one cycle is stored after the
\* next cycle with the shares and entry price of its entry, while the other
\* ticker was entered in that cycle at another price.
C20_Witness ==
    \E i \in Invs :
        /\ ~overlap
        /\ Saved(i)
        /\ base[i].run = runs
        /\ base[i].found # NoDoc
        /\ base[i].found.positions[Tickers[1]].status = "LONG"
        /\ doc.positions[Tickers[1]] = base[i].found.positions[Tickers[1]]
        /\ base[i].found.positions[Tickers[2]].status = "NEUTRAL"
        /\ doc.positions[Tickers[2]].status = "LONG"
        /\ doc.positions[Tickers[2]].entry_price # doc.positions[Tickers[1]].entry_price

====
